---------------------------- MODULE Spec2Model ----------------------------
(***************************************************************************)
(* Verification model of the agent-pattern scripts:                        *)
(*   patterns/12_exception_handling.py  (ExceptionHandler)                 *)
(*   patterns/03_parallelization.py     (thread-pool fan-out/fan-in)       *)
(*   patterns/35_pev.py                 (PEVAgent)                         *)
(*   patterns/26_state_machines.py      (StateMachine)                     *)
(*   patterns/36_blackboard.py          (BlackboardSystem)                 *)
(*   patterns/38_tree_of_thoughts.py    (TreeOfThoughts)                   *)
(*   patterns/43_dry_run.py             (DryRunHarness)                    *)
(*   patterns/24_workflow_orchestration.py (WorkflowOrchestrator)          *)
(* Each script is an independent program; each has its own variables and   *)
(* its own specification, in which the other scripts' variables stay at    *)
(* their idle values.                                                      *)
(***************************************************************************)
EXTENDS Integers, Sequences, FiniteSets, TLC

VARIABLES
    \* ---- 12_exception_handling.py ----
    eh_pc,              \* position of main / handle_with_retry
    eh_query,           \* index of the query main is processing (1-based)
    attempt,            \* loop variable of handle_with_retry
    last_exception,     \* local last_exception of handle_with_retry
    eh_log,             \* calls of the operation and sleeps, in order, of the current handle_with_retry
    eh_outcome,         \* what handle_with_retry / handle_with_fallback gave its caller
    eh_ncalls,          \* number of operation calls made so far in the run (identity of exception objects)
    \* ---- 03_parallelization.py ----
    tp_pc,              \* position of the main thread in the with-block
    futures,            \* state of the future of each topic
    tp_yielded,         \* futures as_completed has handed to the loop body
    tp_collected,       \* results the main thread got from future.result(), in order
    tp_exc,             \* the topic whose exception is propagating in the main thread, or 0
    \* ---- 35_pev.py ----
    pev_pc,             \* position of PEVAgent.solve
    plan,               \* the plan plan() returned: step ids in plan order
    current_plan,       \* local current_plan of solve
    retry_count,        \* local retry_count of solve
    results,            \* local results of solve
    pev_exec,           \* every execute_step/verify_step made, in order
    pev_plan_calls,     \* number of calls of plan()
    pev_error,          \* the exception that left solve, or "none"
    \* ---- 26_state_machines.py ----
    sm,                 \* the StateMachine object: current_state, previous_state, history, context
    sm_initial,         \* the initial_state the machine was constructed with
    sm_call,            \* the last call of transition() from outside: its event and return value
    \* ---- 36_blackboard.py ----
    bb_pc,              \* position of BlackboardSystem.solve
    blackboard,         \* Blackboard.data: findings and partial_solutions
    iterations,         \* local iterations of solve
    contributions,      \* local contributions of solve: the agents activated, in order
    \* ---- 38_tree_of_thoughts.py ----
    tot_pc,             \* position of TreeOfThoughts.build_tree
    nodes,              \* the ThoughtNode objects in order of creation; nodes[1] is the root
    queue,              \* local queue of build_tree: node indices
    next_queue,         \* local next_queue of build_tree
    level,              \* local level of build_tree
    node_i,             \* position of "for node in queue"
    thoughts_left,      \* thoughts of the current node not yet turned into children
    tot_error,          \* the exception that left build_tree or find_best_solution, or "none"
    tot_result,         \* the dict find_best_solution returns
    \* ---- 43_dry_run.py ----
    dr_pc,              \* position of main / DryRunHarness.process_action
    dr_i,               \* number of test_actions main has processed
    dr_calls,           \* the calls process_action has made for the current action, in order
    dry_run_result,     \* local dry_run_result of process_action (its success_probability)
    execution_history,  \* DryRunHarness.execution_history
    dr_result,          \* the dict process_action returned for the current action, once it has
    dr_error,           \* the exception that left process_action, or "none"
    \* ---- 24_workflow_orchestration.py ----
    wf_pc,              \* position of WorkflowOrchestrator.execute_workflow
    tasks,              \* WorkflowOrchestrator.tasks: per task its dependencies and status
    execution_order,    \* local execution_order of execute_workflow
    wf_pos,             \* position of "for task_id in execution_order"
    wf_started,         \* the tasks whose execute has been called, in order
    wf_error            \* the exception that left execute_workflow, or "none"

vars_eh == <<eh_pc, eh_query, attempt, last_exception, eh_log, eh_outcome, eh_ncalls>>
vars_tp == <<tp_pc, futures, tp_yielded, tp_collected, tp_exc>>
vars_pev == <<pev_pc, plan, current_plan, retry_count, results, pev_exec, pev_plan_calls, pev_error>>

vars_sm == <<sm, sm_initial, sm_call>>

vars_bb == <<bb_pc, blackboard, iterations, contributions>>

vars_tot == <<tot_pc, nodes, queue, next_queue, level, node_i, thoughts_left, tot_error, tot_result>>

vars_dr == <<dr_pc, dr_i, dr_calls, dry_run_result, execution_history, dr_result, dr_error>>

vars_wf == <<wf_pc, tasks, execution_order, wf_pos, wf_started, wf_error>>

vars == <<vars_eh, vars_tp, vars_pev, vars_sm, vars_bb, vars_tot, vars_dr, vars_wf>>

\* What each script leaves alone: the variables of the other scripts.
others_eh == <<vars_tp, vars_pev, vars_sm, vars_bb, vars_tot, vars_dr, vars_wf>>
others_tp == <<vars_eh, vars_pev, vars_sm, vars_bb, vars_tot, vars_dr, vars_wf>>
others_pev == <<vars_eh, vars_tp, vars_sm, vars_bb, vars_tot, vars_dr, vars_wf>>
others_sm == <<vars_eh, vars_tp, vars_pev, vars_bb, vars_tot, vars_dr, vars_wf>>
others_bb == <<vars_eh, vars_tp, vars_pev, vars_sm, vars_tot, vars_dr, vars_wf>>
others_tot == <<vars_eh, vars_tp, vars_pev, vars_sm, vars_bb, vars_dr, vars_wf>>
others_dr == <<vars_eh, vars_tp, vars_pev, vars_sm, vars_bb, vars_tot, vars_wf>>
others_wf == <<vars_eh, vars_tp, vars_pev, vars_sm, vars_bb, vars_tot, vars_dr>>

NoneVal == [kind |-> "None"]

(***************************************************************************)
(* 12_exception_handling.py                                                *)
(***************************************************************************)

\* self.max_retries = 3
EH_max_retries == 3

\* main's list of test queries has four entries
NumQueries == 4

\* Exception classes an operation may raise (ServiceError from PrimaryService,
\* any other Exception from an arbitrary operation).
ExcTypes == {"ServiceError", "Exception"}

\* An exception object: its class and the call that raised it.
ExcObj(type, call) == [kind |-> "exc", type |-> type, call |-> call]

\* The value an operation returns on its n-th call.
ResObj(call) == [kind |-> "result", call |-> call]

CallEv(att, out) == [ev |-> "call", attempt |-> att, out |-> out]
SleepEv(att, secs) == [ev |-> "sleep", attempt |-> att, secs |-> secs]

RECURSIVE Pow2(_)
Pow2(n) == IF n = 0 THEN 1 ELSE 2 * Pow2(n - 1)

\* wait_time = 2 ** attempt
wait_time(att) == Pow2(att)

\* A retry loop that runs one iteration too many (range(self.max_retries + 1)).
RetryLoopHasNextOffByOne(att) == att <= EH_max_retries

\* range(self.max_retries): is there a next value of the loop variable
RetryLoopHasNext(att) == att < EH_max_retries

\* A handler that sleeps after every failed attempt, the last one included.
SleepsAfterEveryFailure(att) == TRUE

\* if attempt < self.max_retries - 1
SleepsAfterFailure(att) == att < EH_max_retries - 1

EHInit ==
    /\ eh_pc = "main_fallback"
    /\ eh_query = 1
    /\ attempt = 0
    /\ last_exception = NoneVal
    /\ eh_log = <<>>
    /\ eh_outcome = NoneVal
    /\ eh_ncalls = 0

EHIdle ==
    /\ eh_pc = "idle"
    /\ eh_query = 0
    /\ attempt = 0
    /\ last_exception = NoneVal
    /\ eh_log = <<>>
    /\ eh_outcome = NoneVal
    /\ eh_ncalls = 0

\* main: handler.get_data_with_recovery(query) -> handle_with_fallback(primary_get, fallback_get).
\* The primary either returns or raises; FallbackService.get_data always returns.
HandleWithFallback ==
    /\ eh_pc = "main_fallback"
    /\ eh_query <= NumQueries
    /\ \E ok \in BOOLEAN :
        /\ eh_ncalls' = eh_ncalls + 1
        /\ eh_outcome' = IF ok THEN [kind |-> "primary", call |-> eh_ncalls + 1]
                               ELSE [kind |-> "fallback", call |-> eh_ncalls + 1]
    \* main then calls get_data_with_retry -> handle_with_retry: last_exception = None
    /\ eh_pc' = "retry_loop"
    /\ attempt' = 0
    /\ last_exception' = NoneVal
    /\ eh_log' = <<>>
    /\ UNCHANGED eh_query
    /\ UNCHANGED others_eh

\* One iteration of "for attempt in range(self.max_retries)": the try block.
RetryAttempt ==
    /\ eh_pc = "retry_loop"
    /\ RetryLoopHasNext(attempt)
    /\ eh_ncalls' = eh_ncalls + 1
    /\ \/ \* result = operation(...); return result
          /\ eh_log' = Append(eh_log, CallEv(attempt, ResObj(eh_ncalls + 1)))
          /\ eh_outcome' = ResObj(eh_ncalls + 1)
          /\ eh_pc' = "returned"
          /\ UNCHANGED <<attempt, last_exception>>
       \/ \* except Exception as e: last_exception = e
          \E t \in ExcTypes :
            LET e == ExcObj(t, eh_ncalls + 1) IN
            /\ last_exception' = e
            /\ eh_log' = Append(eh_log, CallEv(attempt, e))
            /\ IF SleepsAfterFailure(attempt)
                 THEN /\ eh_pc' = "retry_sleep"
                      /\ UNCHANGED attempt
                 ELSE /\ eh_pc' = "retry_loop"
                      /\ attempt' = attempt + 1
            /\ UNCHANGED eh_outcome
    /\ UNCHANGED eh_query
    /\ UNCHANGED others_eh

\* time.sleep(wait_time), then the next iteration
RetrySleep ==
    /\ eh_pc = "retry_sleep"
    /\ eh_log' = Append(eh_log, SleepEv(attempt, wait_time(attempt)))
    /\ attempt' = attempt + 1
    /\ eh_pc' = "retry_loop"
    /\ UNCHANGED <<eh_query, last_exception, eh_outcome, eh_ncalls>>
    /\ UNCHANGED others_eh

\* The loop is exhausted: raise last_exception
RetryRaise ==
    /\ eh_pc = "retry_loop"
    /\ ~RetryLoopHasNext(attempt)
    /\ eh_outcome' = last_exception
    /\ eh_pc' = "raised"
    /\ UNCHANGED <<eh_query, attempt, last_exception, eh_log, eh_ncalls>>
    /\ UNCHANGED others_eh

\* main prints the result or "All retries failed" and goes to the next query
MainNextQuery ==
    /\ eh_pc \in {"returned", "raised"}
    /\ eh_query' = eh_query + 1
    /\ eh_pc' = IF eh_query + 1 <= NumQueries THEN "main_fallback" ELSE "main_done"
    /\ UNCHANGED <<attempt, last_exception, eh_log, eh_outcome, eh_ncalls>>
    /\ UNCHANGED others_eh

EHNext ==
    \/ HandleWithFallback
    \/ RetryAttempt
    \/ RetrySleep
    \/ RetryRaise
    \/ MainNextQuery

\* The calls of the operation made by the current handle_with_retry, in order.
IsCallEv(e) == e.ev = "call"
RetryCalls == SelectSeq(eh_log, IsCallEv)

\* C1: handle_with_retry calls the operation at most max_retries (3) times; no
\* call follows a call that returned, and the value handed back is the result
\* of that first succeeding call; it raises only after 3 calls that all raised,
\* and then it raises the exception object of the last of them.
C1_RetryContract ==
    LET calls == RetryCalls IN
    /\ Len(calls) <= EH_max_retries
    /\ \A i \in 1..Len(calls) : calls[i].attempt = i - 1
    /\ \A i \in 1..(Len(calls) - 1) : calls[i].out.kind = "exc"
    /\ eh_pc = "returned" =>
          /\ Len(calls) >= 1
          /\ calls[Len(calls)].out.kind = "result"
          /\ eh_outcome = calls[Len(calls)].out
    /\ eh_pc = "raised" =>
          /\ Len(calls) = EH_max_retries
          /\ \A i \in 1..Len(calls) : calls[i].out.kind = "exc"
          /\ eh_outcome = calls[EH_max_retries].out

\* All three attempts raised, with exceptions of different classes, and the
\* handler raised.
C1_Witness ==
    /\ eh_pc = "raised"
    /\ Len(RetryCalls) = EH_max_retries
    /\ RetryCalls[1].out.type # RetryCalls[EH_max_retries].out.type


\* C16: handle_with_retry sleeps only between consecutive attempts, 2**attempt
\* seconds after failed attempt index attempt (1 s after the first failure, 2 s
\* after the second), and does not sleep after the final failed attempt or
\* after a success.
C16_SleepsOnlyBetweenAttempts ==
    /\ \A k \in 1..Len(eh_log) :
          eh_log[k].ev = "sleep" =>
             /\ k > 1
             /\ eh_log[k - 1].ev = "call"
             /\ eh_log[k - 1].attempt = eh_log[k].attempt
             /\ eh_log[k - 1].out.kind = "exc"
             /\ eh_log[k].attempt \in {0, 1}
             /\ eh_log[k].attempt = 0 => eh_log[k].secs = 1
             /\ eh_log[k].attempt = 1 => eh_log[k].secs = 2
             /\ k < Len(eh_log) =>
                   /\ eh_log[k + 1].ev = "call"
                   /\ eh_log[k + 1].attempt = eh_log[k].attempt + 1
    /\ \A k \in 1..(Len(eh_log) - 1) :
          (eh_log[k].ev = "call" /\ eh_log[k].out.kind = "exc") => eh_log[k + 1].ev = "sleep"
    /\ eh_pc \in {"returned", "raised"} =>
          /\ eh_log # <<>>
          /\ eh_log[Len(eh_log)].ev = "call"

\* Three failed attempts with the sleeps of 1 s and 2 s between them, and the
\* handler raised without a third sleep.
C16_Witness ==
    /\ eh_pc = "raised"
    /\ Len(eh_log) = 5
    /\ eh_log[2] = SleepEv(0, 1)
    /\ eh_log[4] = SleepEv(1, 2)
    /\ eh_log[5].ev = "call"

(***************************************************************************)
(* 03_parallelization.py                                                   *)
(***************************************************************************)

\* topics = ["Python", "AI", "Machine Learning"]
NumTopics == 3

Topics == 1..NumTopics

\* A future is not yet created, waiting in the executor's work queue, being
\* run by a worker thread, or finished with a result or with an exception.
FutureStates == {"unsubmitted", "queued", "running", "result", "exception"}

Finished(fs, t) == fs[t] \in {"result", "exception"}

\* shutdown(wait=False): leaving the with-block without joining the workers.
ShutdownNoWait(fs) == TRUE

\* ThreadPoolExecutor.__exit__ -> shutdown(wait=True): join every worker, which
\* ends only when every submitted work item has run.
ShutdownMayReturn(fs) == \A t \in Topics : fs[t] = "unsubmitted" \/ Finished(fs, t)

TPInit ==
    /\ tp_pc = "submit"
    /\ futures = [t \in Topics |-> "unsubmitted"]
    /\ tp_yielded = {}
    /\ tp_collected = <<>>
    /\ tp_exc = 0

TPIdle ==
    /\ tp_pc = "idle"
    /\ futures = [t \in Topics |-> "unsubmitted"]
    /\ tp_yielded = {}
    /\ tp_collected = <<>>
    /\ tp_exc = 0

\* futures = [executor.submit(analyze_topic, topic, llm) for topic in topics]
Submit ==
    /\ tp_pc = "submit"
    /\ \E t \in Topics :
        /\ futures[t] = "unsubmitted"
        /\ \A u \in Topics : u < t => futures[u] # "unsubmitted"
        /\ futures' = [futures EXCEPT ![t] = "queued"]
        /\ tp_pc' = IF t = NumTopics THEN "collect" ELSE "submit"
    /\ UNCHANGED <<tp_yielded, tp_collected, tp_exc>>
    /\ UNCHANGED others_tp

\* A worker thread takes the work item from the queue
WorkerStart(t) ==
    /\ futures[t] = "queued"
    /\ futures' = [futures EXCEPT ![t] = "running"]
    /\ UNCHANGED <<tp_pc, tp_yielded, tp_collected, tp_exc>>
    /\ UNCHANGED others_tp

\* analyze_topic returns, or llm.generate raises in the worker thread
WorkerFinish(t) ==
    /\ futures[t] = "running"
    /\ \E out \in {"result", "exception"} :
        futures' = [futures EXCEPT ![t] = out]
    /\ UNCHANGED <<tp_pc, tp_yielded, tp_collected, tp_exc>>
    /\ UNCHANGED others_tp

\* for future in as_completed(futures): result = future.result(); print(result)
Collect ==
    /\ tp_pc = "collect"
    /\ \E t \in Topics \ tp_yielded :
        /\ Finished(futures, t)
        /\ tp_yielded' = tp_yielded \cup {t}
        /\ IF futures[t] = "result"
             THEN /\ tp_collected' = Append(tp_collected, t)
                  /\ tp_pc' = IF tp_yielded \cup {t} = Topics THEN "shutdown" ELSE "collect"
                  /\ UNCHANGED tp_exc
             ELSE \* future.result() re-raises the worker's exception
                  /\ tp_exc' = t
                  /\ tp_pc' = "shutdown"
                  /\ UNCHANGED tp_collected
    /\ UNCHANGED futures
    /\ UNCHANGED others_tp

\* Leaving the with-block, normally or with the exception
Shutdown ==
    /\ tp_pc = "shutdown"
    /\ ShutdownMayReturn(futures)
    /\ tp_pc' = IF tp_exc = 0 THEN "done" ELSE "raised"
    /\ UNCHANGED <<futures, tp_yielded, tp_collected, tp_exc>>
    /\ UNCHANGED others_tp

TPNext ==
    \/ Submit
    \/ \E t \in Topics : WorkerStart(t)
    \/ \E t \in Topics : WorkerFinish(t)
    \/ Collect
    \/ Shutdown

SeqToSet(q) == {q[i] : i \in 1..Len(q)}
NoDuplicates(q) == \A i, j \in 1..Len(q) : i # j => q[i] # q[j]
LeftPool == tp_pc \in {"done", "raised"}

\* C2 as stated: whatever the interleaving, when the main thread has left the
\* pool every submitted topic analysis has been collected exactly once.
C2_AllCollectedOnce ==
    LeftPool => /\ SeqToSet(tp_collected) = Topics
                /\ NoDuplicates(tp_collected)

\* C2 amended: no result is ever collected twice and only results of finished
\* calls are collected; the pool is left only after every submitted call has
\* finished; when the with-block ends normally every topic has been collected
\* exactly once, whatever the completion order; it ends with an exception only
\* if a call raised, and then exactly the futures yielded before the failed one
\* have been collected.
C2_FanInContract ==
    /\ NoDuplicates(tp_collected)
    /\ \A t \in SeqToSet(tp_collected) : futures[t] = "result"
    /\ LeftPool => \A t \in Topics : Finished(futures, t)
    /\ tp_pc = "done" => SeqToSet(tp_collected) = Topics
    /\ tp_pc = "raised" =>
          /\ tp_exc \in Topics
          /\ futures[tp_exc] = "exception"
          /\ SeqToSet(tp_collected) = tp_yielded \ {tp_exc}

\* All three results were collected although the calls completed, and were
\* collected, in an order other than the submission order.
C2_Witness ==
    /\ tp_pc = "done"
    /\ Len(tp_collected) = NumTopics
    /\ tp_collected[1] = NumTopics

(***************************************************************************)
(* Reading JSON out of an LLM response (the same code at every parse site) *)
(***************************************************************************)

\* Longest LLM response considered, in tokens.
MaxRespLen == 3

\* An LLM response is a text; it is modelled as a sequence of tokens: the
\* markdown code fences (three backquotes followed by "json", and three
\* backquotes alone), prose that is not JSON, and complete
\* JSON values.
FenceJson == [t |-> "fence_json", v |-> NoneVal]
Fence == [t |-> "fence", v |-> NoneVal]
Prose == [t |-> "text", v |-> NoneVal]
JsonTok(v) == [t |-> "json", v |-> v]

IsFence(tok) == tok.t \in {"fence_json", "fence"}

RECURSIVE SeqsUpTo(_, _)
SeqsUpTo(S, n) ==
    IF n = 0 THEN {<<>>}
    ELSE LET shorter == SeqsUpTo(S, n - 1) IN
         shorter \cup {Append(q, x) : q \in shorter, x \in S}

\* Every response text over the given JSON values.
Responses(values) ==
    SeqsUpTo({FenceJson, Fence, Prose} \cup {JsonTok(v) : v \in values}, MaxRespLen) \ {<<>>}

Contains(resp, tok) == \E i \in 1..Len(resp) : resp[i] = tok
FirstIndex(resp, tok) == CHOOSE i \in 1..Len(resp) : resp[i] = tok /\ \A j \in 1..(i - 1) : resp[j] # tok

\* text.split(sep)[1].split(fence)[0] for a separator that is in the text: what
\* follows the first separator, up to the next fence (a json fence ends it too,
\* since it starts with the plain fence) or the end of the text.
RECURSIVE UpToFence(_)
UpToFence(q) ==
    IF q = <<>> \/ IsFence(Head(q)) THEN <<>> ELSE <<Head(q)>> \o UpToFence(Tail(q))

AfterFirst(resp, sep) == UpToFence(SubSeq(resp, FirstIndex(resp, sep) + 1, Len(resp)))

\* Extraction that always takes the whole response, fences included.
ExtractJsonNoFences(resp) == resp

\* if json fence in response: ... elif fence in response: ... else: json_str = response
ExtractJson(resp) ==
    IF Contains(resp, FenceJson) THEN AfterFirst(resp, FenceJson)
    ELSE IF Contains(resp, Fence) THEN AfterFirst(resp, Fence)
    ELSE resp

\* json.loads(json_str): the value when the text is exactly one JSON value,
\* json.JSONDecodeError otherwise (empty text, prose, prose around a value,
\* two values, a stray fence).
JSONDecodeError == [ok |-> FALSE, v |-> NoneVal]
Loads(json_str) ==
    IF Len(json_str) = 1 /\ json_str[1].t = "json"
      THEN [ok |-> TRUE, v |-> json_str[1].v]
      ELSE JSONDecodeError

(***************************************************************************)
(* 35_pev.py                                                               *)
(***************************************************************************)

\* self.max_retries = 3
PEV_max_retries == 3

\* Longest plan the LLM returns.
MaxPlanLen == 2

\* JSON values the LLM may answer plan() with: an array of n well-formed step
\* objects, or valid JSON of another shape (an object, an array of strings).
PlanList(n) == [shape |-> "steps", n |-> n]
PlanOther == [shape |-> "other", n |-> 0]
PlanValues == {PlanList(n) : n \in 0..MaxPlanLen} \cup {PlanOther}

\* The hand-written fallback plan has two steps.
FallbackPlanLen == 2

StepsOf(n) == [i \in 1..n |-> i]

\* JSON values the LLM may answer verify_step() with: an object with "success"
\* true or false and the other keys; an object with "success": false only; an
\* object without "success"; valid JSON that is not an object.
VerifyObj(success, full) == [shape |-> "object", success |-> success, full |-> full]
VerifyNonObject == [shape |-> "other", success |-> "absent", full |-> FALSE]
VerifyValues ==
    { VerifyObj("true", TRUE), VerifyObj("false", TRUE), VerifyObj("false", FALSE),
      VerifyObj("absent", TRUE), VerifyNonObject }

\* The result dict of a tool: {"result": ..., "success": True} or {"error": ..., "success": False}
ToolResults == {"success", "error"}

\* Fallback verification
\* success = result.get("success", False) and "error" not in result
FallbackVerification(result) ==
    VerifyObj(IF result = "success" THEN "true" ELSE "false", TRUE)

\* verify_step: the parsed JSON value, whatever it is, or the fallback on JSONDecodeError.
verify_step(result, response) ==
    LET parsed == Loads(ExtractJson(response)) IN
    IF parsed.ok THEN parsed.v ELSE FallbackVerification(result)

\* What solve does with a verification: verification.get(reason, ...) needs a
\* dict, verification["success"] needs the key, and the failure branch reads
\* verification[reason] and verification[suggestion].
VerificationError(verification) ==
    IF verification.shape # "object" THEN "AttributeError"
    ELSE IF verification.success = "absent" THEN "KeyError"
    ELSE IF verification.success = "false" /\ ~verification.full THEN "KeyError"
    ELSE "none"

\* A retry limit that is off by one (retry_count > self.max_retries).
RetriesExhaustedOffByOne(rc) == rc > PEV_max_retries

\* if retry_count >= self.max_retries
RetriesExhausted(rc) == rc >= PEV_max_retries

\* A failure branch that forgets to put the step back.
AfterFailureDropStep(cp, step) == cp

\* current_plan.insert(0, step)
AfterFailure(cp, step) == <<step>> \o cp

\* An entry of results: {"step", "result", "verification", "status"}
ResultRec(step, result, status) == [step |-> step, result |-> result, status |-> status]

\* One execution of a step and how its verification came out: "success"
\* (verification["success"] is true), "failed" (it is false), or "raised" when
\* solve could not read verification["success"] at all.
ExecRec(step, outcome) == [step |-> step, outcome |-> outcome]

PEVInit ==
    /\ pev_pc = "plan"
    /\ plan = <<>>
    /\ current_plan = <<>>
    /\ retry_count = 0
    /\ results = <<>>
    /\ pev_exec = <<>>
    /\ pev_plan_calls = 0
    /\ pev_error = "none"

PEVIdle ==
    /\ pev_pc = "idle"
    /\ plan = <<>>
    /\ current_plan = <<>>
    /\ retry_count = 0
    /\ results = <<>>
    /\ pev_exec = <<>>
    /\ pev_plan_calls = 0
    /\ pev_error = "none"

\* llm.generate raises (any of the calls of solve): the exception leaves solve
LLMRaises ==
    /\ \/ pev_pc \in {"plan", "synthesize"}
       \/ pev_pc = "loop" /\ current_plan # <<>> /\ retry_count < PEV_max_retries
    /\ pev_pc' = "raised"
    /\ pev_error' = "LLMError"
    /\ pev_plan_calls' = IF pev_pc = "plan" THEN pev_plan_calls + 1 ELSE pev_plan_calls
    /\ UNCHANGED <<plan, current_plan, retry_count, results, pev_exec>>
    /\ UNCHANGED others_pev

\* Phase 1: plan = self.plan(goal); printing the plan; results = [],
\* current_plan = plan.copy(), retry_count = 0
Plan ==
    /\ pev_pc = "plan"
    /\ pev_plan_calls' = pev_plan_calls + 1
    /\ \E response \in Responses(PlanValues) :
        LET parsed == Loads(ExtractJson(response)) IN
        IF parsed.ok /\ parsed.v.shape = "other"
          THEN \* step[step] on something that is no step object
               /\ pev_pc' = "raised"
               /\ pev_error' = "TypeError"
               /\ UNCHANGED <<plan, current_plan>>
          ELSE LET n == IF parsed.ok THEN parsed.v.n ELSE FallbackPlanLen IN
               /\ plan' = StepsOf(n)
               /\ current_plan' = StepsOf(n)
               /\ pev_pc' = "loop"
               /\ UNCHANGED pev_error
    /\ retry_count' = 0
    /\ results' = <<>>
    /\ UNCHANGED pev_exec
    /\ UNCHANGED others_pev

\* One iteration of "while current_plan and retry_count < self.max_retries"
ExecuteAndVerify ==
    /\ pev_pc = "loop"
    /\ current_plan # <<>>
    /\ retry_count < PEV_max_retries
    /\ \E result \in ToolResults, response \in Responses(VerifyValues) :
        LET step == Head(current_plan)
            popped == Tail(current_plan)
            verification == verify_step(result, response)
            err == VerificationError(verification)
            ok == verification.success = "true"
        IN
        IF verification.shape # "object" \/ verification.success = "absent"
          THEN \* raised before either branch is taken
               /\ pev_exec' = Append(pev_exec, ExecRec(step, "raised"))
               /\ current_plan' = popped
               /\ pev_pc' = "raised"
               /\ pev_error' = err
               /\ UNCHANGED <<retry_count, results>>
        ELSE IF ok
          THEN /\ pev_exec' = Append(pev_exec, ExecRec(step, "success"))
               /\ results' = Append(results, ResultRec(step, result, "success"))
               /\ current_plan' = popped
               /\ retry_count' = 0
               /\ UNCHANGED <<pev_pc, pev_error>>
        ELSE IF err # "none"
          THEN \* the verification failed; print(verification[reason]) raises
               \* in the failure branch, before the step is put back
               /\ pev_exec' = Append(pev_exec, ExecRec(step, "failed"))
               /\ current_plan' = popped
               /\ pev_pc' = "raised"
               /\ pev_error' = err
               /\ UNCHANGED <<retry_count, results>>
          ELSE /\ pev_exec' = Append(pev_exec, ExecRec(step, "failed"))
               /\ current_plan' = AfterFailure(popped, step)
               /\ retry_count' = retry_count + 1
               /\ IF RetriesExhausted(retry_count + 1)
                    THEN /\ results' = Append(results, ResultRec(step, result, "failed"))
                         /\ pev_pc' = "synthesize"      \* break
                    ELSE UNCHANGED <<results, pev_pc>>
               /\ UNCHANGED pev_error
    /\ UNCHANGED <<plan, pev_plan_calls>>
    /\ UNCHANGED others_pev

\* The while condition is false: on to phase 3
LoopExit ==
    /\ pev_pc = "loop"
    /\ ~(current_plan # <<>> /\ retry_count < PEV_max_retries)
    /\ pev_pc' = "synthesize"
    /\ UNCHANGED <<plan, current_plan, retry_count, results, pev_exec, pev_plan_calls, pev_error>>
    /\ UNCHANGED others_pev

\* Phase 3: final_answer = self.synthesize_results(goal, results); return
Synthesize ==
    /\ pev_pc = "synthesize"
    /\ pev_pc' = "done"
    /\ UNCHANGED <<plan, current_plan, retry_count, results, pev_exec, pev_plan_calls, pev_error>>
    /\ UNCHANGED others_pev

PEVNext ==
    \/ Plan
    \/ ExecuteAndVerify
    \/ LoopExit
    \/ Synthesize
    \/ LLMRaises

IsSuccess(r) == r.status = "success"
IsFailed(r) == r.status = "failed"
ExecsOf(s) == {i \in 1..Len(pev_exec) : pev_exec[i].step = s}
ParseShapeErrors == {"KeyError", "AttributeError", "TypeError"}

\* C3: malformed LLM output never surfaces as an error: whatever the LLM
\* answers to verify_step, the answer is used or replaced by the fallback, and
\* the execute/verify loop of solve goes on without raising on it.
C3_MalformedNeverSurfaces ==
    /\ \A i \in 1..Len(pev_exec) : pev_exec[i].outcome # "raised"
    /\ Len(pev_exec) > 0 => pev_error \notin ParseShapeErrors

\* C4: a step is executed only after every earlier step of the plan has been
\* executed and verified as successful, and the results with status "success"
\* are the steps 1, 2, ... of the plan in order, each backed by a verified
\* execution of that step.
C4_VerifiedBeforeProceeding ==
    /\ \A i \in 1..Len(pev_exec) :
         \A s \in 1..(pev_exec[i].step - 1) :
            \E k \in 1..(i - 1) : pev_exec[k].step = s /\ pev_exec[k].outcome = "success"
    /\ LET done == SelectSeq(results, IsSuccess) IN
         /\ Len(done) <= Len(plan)
         /\ \A i \in 1..Len(done) :
              /\ done[i].step = plan[i]
              /\ \E k \in ExecsOf(plan[i]) : pev_exec[k].outcome = "success"

\* Step 1 failed verification once, was retried and verified, and step 2 was
\* then executed.
C4_Witness ==
    /\ Len(pev_exec) >= 3
    /\ pev_exec[1] = ExecRec(1, "failed")
    /\ pev_exec[2] = ExecRec(1, "success")
    /\ pev_exec[3].step = 2

\* The last n executions are failed verifications of one step.
EndsWithFailures(n) ==
    /\ Len(pev_exec) >= n
    /\ \A i \in (Len(pev_exec) - n + 1)..Len(pev_exec) :
         /\ pev_exec[i].outcome = "failed"
         /\ pev_exec[i].step = pev_exec[Len(pev_exec)].step

\* C5: no step is executed more than max_retries (3) times, so there are at
\* most 3 x len(plan) executions; once a step has failed verification three
\* times in a row the loop is over, and that step is recorded exactly once
\* with status "failed", as the last result; nothing else is recorded failed.
C5_BoundedRetries ==
    /\ \A s \in 1..Len(plan) : Cardinality(ExecsOf(s)) <= PEV_max_retries
    /\ Len(pev_exec) <= PEV_max_retries * Len(plan)
    /\ EndsWithFailures(PEV_max_retries) =>
         /\ pev_pc # "loop"
         /\ Len(results) >= 1
         /\ results[Len(results)] \in
              {ResultRec(pev_exec[Len(pev_exec)].step, r, "failed") : r \in ToolResults}
    /\ \A i \in 1..Len(results) : IsFailed(results[i]) =>
         /\ i = Len(results)
         /\ EndsWithFailures(PEV_max_retries)
         /\ results[i].step = pev_exec[Len(pev_exec)].step

\* C5 with every verification answer complete (no exception on reading one).
C5_BoundedRetriesReadable == pev_error \notin ParseShapeErrors => C5_BoundedRetries

\* The second step of a two-step plan failed three times in a row after the
\* first step had needed three executions, and solve has returned.
C5_Witness ==
    /\ pev_pc = "done"
    /\ Len(plan) = 2
    /\ Len(pev_exec) = 2 * PEV_max_retries
    /\ EndsWithFailures(PEV_max_retries)
    /\ IsFailed(results[Len(results)])

\* C6: a step attempted after a failed verification comes from a newly
\* generated plan: plan() has been invoked again by then.
C6_ReplansAfterFailure ==
    \A i \in 2..Len(pev_exec) :
        pev_exec[i - 1].outcome = "failed" => pev_plan_calls >= 2

\* plan() is called exactly once per solve, whatever fails.
PlanCalledOnce == pev_pc # "plan" => pev_plan_calls = 1

(***************************************************************************)
(* 26_state_machines.py                                                    *)
(***************************************************************************)

\* Transitions made before the last outside call of transition() considered.
MaxHistory == 3

AgentState == {"idle", "listening", "processing", "responding", "error", "sleeping"}

Event == {"user_input", "processing_complete", "error_occurred", "timeout",
          "sleep_command", "wake_command", "reset_command"}

\* self.transitions, as (state, event, next state)
transitions ==
    { <<"idle", "user_input", "listening">>,
      <<"listening", "processing_complete", "processing">>,
      <<"processing", "processing_complete", "responding">>,
      <<"responding", "processing_complete", "idle">>,
      <<"error", "reset_command", "idle">>,
      <<"idle", "sleep_command", "sleeping">>,
      <<"sleeping", "wake_command", "idle">>,
      <<"listening", "error_occurred", "error">>,
      <<"processing", "error_occurred", "error">>,
      <<"responding", "error_occurred", "error">>,
      <<"listening", "timeout", "idle">>,
      <<"processing", "timeout", "error">> }

\* transition_key in self.transitions
InTransitions(state, event) == \E tr \in transitions : tr[1] = state /\ tr[2] = event

\* self.transitions[transition_key]
NewState(state, event) == (CHOOSE tr \in transitions : tr[1] = state /\ tr[2] = event)[3]

\* A dict is a record over all the keys used, Absent marking a missing key.
Absent == "<absent>"
EmptyData == [input |-> Absent, response |-> Absent, error |-> Absent, completed |-> Absent]
EmptyContext == [last_action |-> Absent, user_input |-> Absent, llm_response |-> Absent,
                 final_response |-> Absent, error |-> Absent]

\* d.get(key, default), given d[key] or Absent
Get(value, default) == IF value = Absent THEN default ELSE value

\* The data dicts transition() is called with from outside
CallData ==
    { EmptyData,
      [EmptyData EXCEPT !.input = "Hello"],
      [EmptyData EXCEPT !.error = "boom"] }

\* What llm.generate does in _processing_action: a response, or an exception
LLMOutcomes == {"a response", "raise"}

\* A history entry that takes "from" from the state already updated.
HistoryEntryFromCurrent(from, to, event, data) ==
    [from |-> to, to |-> to, event |-> event, data |-> data]

\* self.history.append({"from": ..., "to": ..., "event": ..., "data": ...});
\* the wall-clock "timestamp" of the entry is left out.
HistoryEntry(from, to, event, data) ==
    [from |-> from, to |-> to, event |-> event, data |-> data]

\* An invalid transition that has already recorded previous_state.
InvalidTransitionRecordsPrevious(m) == [m EXCEPT !.previous_state = m.current_state]

\* if transition_key not in self.transitions: print(...); return False
InvalidTransition(m) == m

RECURSIVE Transition(_, _, _, _)
RECURSIVE ExecuteStateAction(_, _, _)

\* StateMachine.transition(event, data): the machine after the call, nested
\* calls made by the state actions included.
Transition(m, event, data, llm) ==
    IF ~InTransitions(m.current_state, event)
      THEN InvalidTransition(m)
      ELSE LET new_state == NewState(m.current_state, event)
               m1 == [m EXCEPT
                        !.previous_state = m.current_state,
                        !.current_state = new_state,
                        !.history = Append(@, HistoryEntry(m.current_state, new_state, event, data)),
                        !.actions_run = @ + 1]
           IN ExecuteStateAction(m1, data, llm)

\* _execute_state_action and the six state actions
ExecuteStateAction(m, data, llm) ==
    CASE m.current_state = "idle" ->
            [m EXCEPT !.context.last_action = "idle"]
      [] m.current_state = "listening" ->
            Transition([m EXCEPT !.context.user_input = Get(data.input, ""),
                                 !.context.last_action = "listening"],
                       "processing_complete", data, llm)
      [] m.current_state = "processing" ->
            IF llm = "a response"
              THEN Transition([m EXCEPT !.context.llm_response = "LLM answer",
                                        !.context.last_action = "processing"],
                              "processing_complete",
                              [EmptyData EXCEPT !.response = "LLM answer"], llm)
              ELSE Transition(m, "error_occurred",
                              [EmptyData EXCEPT !.error = "Error with provider"], llm)
      [] m.current_state = "responding" ->
            Transition([m EXCEPT !.context.final_response =
                                     Get(data.response, Get(m.context.llm_response, "")),
                                 !.context.last_action = "responding"],
                       "processing_complete",
                       [EmptyData EXCEPT !.completed = "True"], llm)
      [] m.current_state = "error" ->
            [m EXCEPT !.context.error = Get(data.error, "Unknown error"),
                      !.context.last_action = "error"]
      [] m.current_state = "sleeping" ->
            [m EXCEPT !.context.last_action = "sleeping"]

\* StateMachine.__init__(initial_state)
NewStateMachine(initial_state) ==
    [current_state |-> initial_state, previous_state |-> "None",
     history |-> <<>>, context |-> EmptyContext, actions_run |-> 0]

NoCall == [event |-> "None", ret |-> "None"]

SMInit ==
    /\ sm_initial \in AgentState
    /\ sm = NewStateMachine(sm_initial)
    /\ sm_call = NoCall

SMIdle ==
    /\ sm_initial = "idle"
    /\ sm = NewStateMachine("idle")
    /\ sm_call = NoCall

\* sm.transition(event, data) called from outside, for a key in the table
ValidTransitionCall ==
    /\ Len(sm.history) < MaxHistory
    /\ \E event \in Event, data \in CallData, llm \in LLMOutcomes :
        /\ InTransitions(sm.current_state, event)
        /\ sm' = Transition(sm, event, data, llm)
        /\ sm_call' = [event |-> event, ret |-> "True"]
    /\ UNCHANGED sm_initial
    /\ UNCHANGED others_sm

\* sm.transition(event, data) called from outside, for a key not in the table
InvalidTransitionCall ==
    /\ \E event \in Event, data \in CallData, llm \in LLMOutcomes :
        /\ ~InTransitions(sm.current_state, event)
        /\ sm' = Transition(sm, event, data, llm)
        /\ sm_call' = [event |-> event, ret |-> "False"]
    /\ UNCHANGED sm_initial
    /\ UNCHANGED others_sm

SMNext ==
    \/ ValidTransitionCall
    \/ InvalidTransitionCall

\* C7: transition(event) for a (current_state, event) pair that is not in the
\* transition table returns False, runs no state action, and leaves
\* current_state, previous_state, history and context unchanged.
C7_InvalidTransitionIsNoOp ==
    [][ ~InTransitions(sm.current_state, sm_call'.event) =>
            /\ sm_call'.ret = "False"
            /\ sm'.actions_run = sm.actions_run
            /\ sm'.current_state = sm.current_state
            /\ sm'.previous_state = sm.previous_state
            /\ sm'.history = sm.history
            /\ sm'.context = sm.context ]_vars

\* An invalid transition was attempted after the machine had moved: it
\* returned False with a history and a previous state in place.
C7_Witness ==
    /\ sm_call.ret = "False"
    /\ ~InTransitions(sm.current_state, sm_call.event)
    /\ Len(sm.history) >= 2
    /\ sm.previous_state # sm.current_state

\* C8: every history entry is a (from, event, to) triple of the transition
\* table, each from-state is the to-state of the entry before it, the first
\* entry starts at the initial state, and current_state is the to-state of
\* the last entry.
C8_HistoryIsAPathOfTheTable ==
    LET h == sm.history IN
    /\ \A i \in 1..Len(h) : <<h[i].from, h[i].event, h[i].to>> \in transitions
    /\ \A i \in 2..Len(h) : h[i].from = h[i - 1].to
    /\ Len(h) >= 1 => h[1].from = sm_initial
    /\ sm.current_state = IF Len(h) = 0 THEN sm_initial ELSE h[Len(h)].to

\* A conversation went through listening, processing and the LLM failure into
\* the error state, and was reset afterwards.
C8_Witness ==
    /\ Len(sm.history) >= 4
    /\ sm.current_state = "idle"
    /\ \E i \in 1..Len(sm.history) : sm.history[i].to = "error"

(***************************************************************************)
(* 36_blackboard.py                                                        *)
(***************************************************************************)

\* self.max_iterations = 5
max_iterations == 5

\* The agents in the order BlackboardSystem.__init__ adds them
agents == <<"Researcher", "Analyst", "Solver">>

\* What ResearchAgent._search_tool finds for the query the LLM wrote: the
\* first key of mock_data contained in the query, or the default text.
SearchResults ==
    {"apple financial", "stock market", "machine learning", "python programming", "default"}

\* Blackboard.add_finding
add_finding(b, agent_name, finding, confidence) ==
    [b EXCEPT !.findings = Append(@, [agent |-> agent_name, finding |-> finding,
                                     confidence |-> confidence,
                                     timestamp |-> Len(b.findings)])]

\* Blackboard.add_solution
add_solution(b, agent_name, solution, completeness) ==
    [b EXCEPT !.partial_solutions = Append(@, [agent |-> agent_name, solution |-> solution,
                                               completeness |-> completeness,
                                               timestamp |-> Len(b.partial_solutions)])]

\* can_contribute of ResearchAgent, AnalysisAgent and SolutionAgent
can_contribute(agent, b) ==
    CASE agent = "Researcher" -> Len(b.findings) < 3
      [] agent = "Analyst" -> Len(b.findings) >= 2
      [] agent = "Solver" -> Len(b.findings) >= 3

available_agents(b) == {i \in 1..Len(agents) : can_contribute(agents[i], b)}

\* Controller.select_agent: the first available agent of type ResearchAgent,
\* else of type AnalysisAgent, else of type SolutionAgent
select_agent(b) ==
    IF available_agents(b) = {} THEN "None"
    ELSE IF can_contribute("Researcher", b) THEN "Researcher"
    ELSE IF can_contribute("Analyst", b) THEN "Analyst"
    ELSE "Solver"

\* contribute of the three agents: what they write on the blackboard
contribute(agent, b, search) ==
    CASE agent = "Researcher" -> add_finding(b, "Researcher", search, "0.8")
      [] agent = "Analyst" -> add_finding(b, "Analyst", "Analysis", "0.9")
      [] agent = "Solver" -> add_solution(b, "Solver", "solution", "0.85")

\* Controller.is_complete
is_complete(b) == Len(b.partial_solutions) > 0 /\ Len(b.findings) >= 3

\* Blackboard.__init__
NewBlackboard == [findings |-> <<>>, partial_solutions |-> <<>>]

BBInit ==
    /\ bb_pc = "start"
    /\ blackboard = NewBlackboard
    /\ iterations = 0
    /\ contributions = <<>>

BBIdle ==
    /\ bb_pc = "idle"
    /\ blackboard = NewBlackboard
    /\ iterations = 0
    /\ contributions = <<>>

\* solve: the blackboard is given the problem; iterations = 0, contributions = []
SolveStart ==
    /\ bb_pc = "start"
    /\ bb_pc' = "loop"
    /\ iterations' = 0
    /\ contributions' = <<>>
    /\ UNCHANGED blackboard
    /\ UNCHANGED others_bb

\* One iteration of "while iterations < self.max_iterations"
SolveIteration ==
    /\ bb_pc = "loop"
    /\ iterations < max_iterations
    /\ iterations' = iterations + 1
    /\ LET selected_agent == select_agent(blackboard) IN
       IF selected_agent = "None"
         THEN \* No agents can contribute further: break
              /\ bb_pc' = "synthesize"
              /\ UNCHANGED <<blackboard, contributions>>
         ELSE \/ \E search \in SearchResults :
                   /\ selected_agent # "Researcher" => search = "default"
                   /\ blackboard' = contribute(selected_agent, blackboard, search)
                   /\ contributions' = Append(contributions, selected_agent)
                   /\ bb_pc' = IF is_complete(blackboard') THEN "synthesize" ELSE "loop"
              \/ \* llm.generate raises inside contribute
                 /\ bb_pc' = "raised"
                 /\ UNCHANGED <<blackboard, contributions>>
    /\ UNCHANGED others_bb

\* The while condition is false
SolveLoopEnd ==
    /\ bb_pc = "loop"
    /\ ~(iterations < max_iterations)
    /\ bb_pc' = "synthesize"
    /\ UNCHANGED <<blackboard, iterations, contributions>>
    /\ UNCHANGED others_bb

\* final_solution = self._synthesize_solution(); return
SynthesizeSolution ==
    /\ bb_pc = "synthesize"
    /\ \E llm_ok \in BOOLEAN : bb_pc' = IF llm_ok THEN "done" ELSE "raised"
    /\ UNCHANGED <<blackboard, iterations, contributions>>
    /\ UNCHANGED others_bb

BBNext ==
    \/ SolveStart
    \/ SolveIteration
    \/ SolveLoopEnd
    \/ SynthesizeSolution

Activated(agent) == \E i \in 1..Len(contributions) : contributions[i] = agent

\* C9: solve can solve the problem: a run of solve that returns has activated
\* the Solver, has a partial solution on the blackboard, and is complete in
\* the sense of Controller.is_complete.
C9_SolveReachesSolution ==
    bb_pc = "done" =>
        /\ Activated("Solver")
        /\ Len(blackboard.partial_solutions) > 0
        /\ is_complete(blackboard)

\* What the code does instead, in every run: the Solver is never activated,
\* nothing is ever written to partial_solutions and is_complete never holds;
\* the five iterations go to the Researcher (three times) and the Analyst.
SolverNeverActivated ==
    /\ ~Activated("Solver")
    /\ blackboard.partial_solutions = <<>>
    /\ ~is_complete(blackboard)
    /\ \A i \in 1..Len(contributions) :
          contributions[i] = IF i <= 3 THEN "Researcher" ELSE "Analyst"

(***************************************************************************)
(* 38_tree_of_thoughts.py                                                  *)
(***************************************************************************)

\* TreeOfThoughts(llm, max_depth, branching_factor): the constructor arguments
max_depth == 2
branching_factor == 2

\* Most nodes a tree is given (the LLM answers with no more thoughts than fit).
MaxNodes == 4

\* Scores are in tenths: 60 is 6.0.
PromisingScore == 60
FallbackScore == 70
FallbackThoughts == 3
FallbackTerminalPathLen == 3

\* "overall" values the LLM may give
Scores == {59, 60}

Min(a, b) == IF a < b THEN a ELSE b

\* JSON values the LLM may answer generate_thoughts with: an array of n
\* strings, or valid JSON that cannot be sliced (an object, a number).
ThoughtList(n) == [shape |-> "list", n |-> n]
ThoughtOther == [shape |-> "other", n |-> 0]
ThoughtValues == {ThoughtList(n) : n \in 0..(branching_factor + 1)} \cup {ThoughtOther}

\* JSON values the LLM may answer evaluate_thought with: an object with a
\* numeric "overall", an object without it, valid JSON that is no object.
EvalObj(overall) == [shape |-> "object", overall |-> overall]
EvalNoOverall == [shape |-> "object", overall |-> -1]
EvalOther == [shape |-> "other", overall |-> -1]
EvalValues == {EvalObj(x) : x \in Scores} \cup {EvalNoOverall, EvalOther}

\* JSON values the LLM may answer is_terminal with: an object with
\* "is_complete" true or false, an object without it, valid JSON that is no object.
TermObj(complete) == [shape |-> "object", is_complete |-> complete]
TermOther == [shape |-> "other", is_complete |-> "absent"]
TermValues == {TermObj("true"), TermObj("false"), TermObj("absent"), TermOther}

\* What json.loads gives at each parse site, over every response text
ParsedResponses(values) == {Loads(ExtractJson(response)) : response \in Responses(values)}
ThoughtParses == ParsedResponses(ThoughtValues)
EvalParses == ParsedResponses(EvalValues)
TermParses == ParsedResponses(TermValues)

Raise(error) == [raised |-> TRUE, error |-> error, value |-> 0]
Return(value) == [raised |-> FALSE, error |-> "none", value |-> value]

\* generate_thoughts without the slice: every thought of the parsed array.
generate_thoughts_unsliced(parsed, num_thoughts) ==
    IF ~parsed.ok THEN Return(Min(FallbackThoughts, num_thoughts))
    ELSE IF parsed.v.shape = "other" THEN Raise("TypeError")
    ELSE Return(parsed.v.n)

\* generate_thoughts: the number of thoughts returned, thoughts[:num_thoughts]
\* of the parsed array or of the three fallback thoughts
generate_thoughts(parsed, num_thoughts) ==
    IF ~parsed.ok THEN Return(Min(FallbackThoughts, num_thoughts))
    ELSE IF parsed.v.shape = "other" THEN Raise("TypeError")
    ELSE Return(Min(parsed.v.n, num_thoughts))

\* evaluation = evaluate_thought(...); child.evaluation_score = evaluation["overall"]
evaluate_thought(parsed) ==
    IF ~parsed.ok THEN Return(FallbackScore)
    ELSE IF parsed.v.shape = "other" THEN Raise("TypeError")
    ELSE IF parsed.v.overall < 0 THEN Raise("KeyError")
    ELSE Return(parsed.v.overall)

\* is_terminal: result.get("is_complete", False), or len(thought_path) >= 3
is_terminal(parsed, path_len) ==
    IF ~parsed.ok THEN Return(path_len >= FallbackTerminalPathLen)
    ELSE IF parsed.v.shape = "other" THEN Raise("AttributeError")
    ELSE Return(parsed.v.is_complete = "true")

\* ThoughtNode(content=...): parent None, evaluation_score 0.0, depth 0, is_terminal False
ThoughtNode == [parent |-> 0, evaluation_score |-> 0, depth |-> 0, is_terminal |-> FALSE]

\* node.add_child(child): child.parent = self; child.depth = self.depth + 1
add_child(ns, parent) ==
    Append(ns, [ThoughtNode EXCEPT !.parent = parent, !.depth = ns[parent].depth + 1])

\* node.children, in order
Children(ns, n) == {c \in 1..Len(ns) : ns[c].parent = n}

\* len(node.get_path()): the node and its ancestors
PathLen(ns, n) == ns[n].depth + 1

\* Expansion of every child with a good score, terminal or not.
PromisingIgnoringTerminal(child) == child.evaluation_score >= PromisingScore

\* if not child.is_terminal and child.evaluation_score >= 6.0
Promising(child) == ~child.is_terminal /\ child.evaluation_score >= PromisingScore

\* node.get_path(): the nodes from the root to the node (a node stands for its content)
RECURSIVE get_path(_, _)
get_path(ns, n) ==
    IF n = 0 THEN <<>> ELSE Append(get_path(ns, ns[n].parent), n)

\* The concatenation of f[i] for the members i of set, in increasing order
RECURSIVE ConcatInOrder(_, _)
ConcatInOrder(f, set) ==
    IF set = {} THEN <<>>
    ELSE LET first == CHOOSE i \in set : \A j \in set : i <= j
         IN f[first] \o ConcatInOrder(f, set \ {first})

\* _find_terminal_nodes(node): the node if terminal, then its children's, in order
RECURSIVE find_terminal_nodes(_, _)
find_terminal_nodes(ns, n) ==
    (IF ns[n].is_terminal THEN <<n>> ELSE <<>>)
        \o ConcatInOrder([c \in Children(ns, n) |-> find_terminal_nodes(ns, c)], Children(ns, n))

\* The first terminal node found, whatever its score.
first_of(ns, terminal_nodes) == terminal_nodes[1]

\* max(terminal_nodes, key=lambda n: n.evaluation_score): the first of the maximal ones
max_by_score(ns, terminal_nodes) ==
    LET best == CHOOSE i \in 1..Len(terminal_nodes) :
                    /\ \A j \in 1..Len(terminal_nodes) :
                          ns[terminal_nodes[j]].evaluation_score <= ns[terminal_nodes[i]].evaluation_score
                    /\ \A j \in 1..(i - 1) :
                          ns[terminal_nodes[j]].evaluation_score < ns[terminal_nodes[i]].evaluation_score
    IN terminal_nodes[best]

\* The result before find_best_solution returns
NoResult == [solution |-> "none", best_path |-> <<>>, score |-> -1]

\* The result of find_best_solution when terminal_nodes is empty
NoSolutionResult == [solution |-> "No complete solutions found", best_path |-> <<>>, score |-> 0]

\* The result of find_best_solution for best_node
SolutionResult(ns, best_node) ==
    [solution |-> "final solution", best_path |-> get_path(ns, best_node),
     score |-> ns[best_node].evaluation_score]

TOTInit ==
    /\ tot_pc = "start"
    /\ nodes = <<>>
    /\ queue = <<>>
    /\ next_queue = <<>>
    /\ level = 0
    /\ node_i = 0
    /\ thoughts_left = 0
    /\ tot_error = "none"
    /\ tot_result = NoResult

TOTIdle ==
    /\ tot_pc = "idle"
    /\ nodes = <<>>
    /\ queue = <<>>
    /\ next_queue = <<>>
    /\ level = 0
    /\ node_i = 0
    /\ thoughts_left = 0
    /\ tot_error = "none"
    /\ tot_result = NoResult

\* self.root = ThoughtNode(...); queue = [self.root]; level = 0
BuildStart ==
    /\ tot_pc = "start"
    /\ nodes' = <<ThoughtNode>>
    /\ queue' = <<1>>
    /\ level' = 0
    /\ tot_pc' = "while"
    /\ UNCHANGED <<next_queue, node_i, thoughts_left, tot_error>>
    /\ UNCHANGED <<tot_result, others_tot>>

\* while queue and level < self.max_depth: level += 1; next_queue = []
LevelStart ==
    /\ tot_pc = "while"
    /\ queue # <<>> /\ level < max_depth
    /\ level' = level + 1
    /\ next_queue' = <<>>
    /\ node_i' = 1
    /\ tot_pc' = "for_node"
    /\ UNCHANGED <<nodes, queue, thoughts_left, tot_error>>
    /\ UNCHANGED <<tot_result, others_tot>>

\* for node in queue: thoughts = self.generate_thoughts(problem, current_path, self.branching_factor)
GenerateThoughts ==
    /\ tot_pc = "for_node"
    /\ node_i <= Len(queue)
    /\ \/ \E parsed \in ThoughtParses :
            LET thoughts == generate_thoughts(parsed, branching_factor) IN
            IF thoughts.raised
              THEN /\ tot_pc' = "raised"
                   /\ tot_error' = thoughts.error
                   /\ UNCHANGED thoughts_left
              ELSE /\ Len(nodes) + thoughts.value <= MaxNodes
                   /\ thoughts_left' = thoughts.value
                   /\ tot_pc' = "for_thought"
                   /\ UNCHANGED tot_error
       \/ \* llm.generate raises
          /\ tot_pc' = "raised"
          /\ tot_error' = "LLMError"
          /\ UNCHANGED thoughts_left
    /\ UNCHANGED <<nodes, queue, next_queue, level, node_i>>
    /\ UNCHANGED <<tot_result, others_tot>>

\* for thought_content in thoughts: child = ThoughtNode(...); node.add_child(child);
\* child.evaluation_score = self.evaluate_thought(problem, new_path)["overall"]
AddChild ==
    /\ tot_pc = "for_thought"
    /\ thoughts_left > 0
    /\ LET with_child == add_child(nodes, queue[node_i])
           child == Len(with_child)
       IN
       \/ \E parsed \in EvalParses :
            LET evaluation == evaluate_thought(parsed) IN
            IF evaluation.raised
              THEN /\ nodes' = with_child
                   /\ tot_pc' = "raised"
                   /\ tot_error' = evaluation.error
              ELSE /\ nodes' = [with_child EXCEPT ![child].evaluation_score = evaluation.value]
                   /\ tot_pc' = "is_terminal"
                   /\ UNCHANGED tot_error
       \/ \* llm.generate raises
          /\ nodes' = with_child
          /\ tot_pc' = "raised"
          /\ tot_error' = "LLMError"
    /\ UNCHANGED <<queue, next_queue, level, node_i, thoughts_left>>
    /\ UNCHANGED <<tot_result, others_tot>>

\* child.is_terminal = self.is_terminal(problem, new_path);
\* if not child.is_terminal and child.evaluation_score >= 6.0: next_queue.append(child)
CheckTerminal ==
    /\ tot_pc = "is_terminal"
    /\ LET child == Len(nodes) IN
       \/ \E parsed \in TermParses :
            LET terminal == is_terminal(parsed, PathLen(nodes, child)) IN
            IF terminal.raised
              THEN /\ tot_pc' = "raised"
                   /\ tot_error' = terminal.error
                   /\ UNCHANGED <<nodes, next_queue, thoughts_left>>
              ELSE /\ nodes' = [nodes EXCEPT ![child].is_terminal = terminal.value]
                   /\ next_queue' = IF Promising(nodes'[child])
                                      THEN Append(next_queue, child) ELSE next_queue
                   /\ thoughts_left' = thoughts_left - 1
                   /\ tot_pc' = "for_thought"
                   /\ UNCHANGED tot_error
       \/ \* llm.generate raises
          /\ tot_pc' = "raised"
          /\ tot_error' = "LLMError"
          /\ UNCHANGED <<nodes, next_queue, thoughts_left>>
    /\ UNCHANGED <<queue, level, node_i>>
    /\ UNCHANGED <<tot_result, others_tot>>

\* The thoughts of the node are used up: the next node of the queue
NextNode ==
    /\ tot_pc = "for_thought"
    /\ thoughts_left = 0
    /\ node_i' = node_i + 1
    /\ tot_pc' = "for_node"
    /\ UNCHANGED <<nodes, queue, next_queue, level, thoughts_left, tot_error>>
    /\ UNCHANGED <<tot_result, others_tot>>

\* The nodes of the queue are used up: queue = next_queue
LevelEnd ==
    /\ tot_pc = "for_node"
    /\ node_i > Len(queue)
    /\ queue' = next_queue
    /\ tot_pc' = "while"
    /\ UNCHANGED <<nodes, next_queue, level, node_i, thoughts_left, tot_error>>
    /\ UNCHANGED <<tot_result, others_tot>>

\* The while condition is false: return self.root
BuildDone ==
    /\ tot_pc = "while"
    /\ ~(queue # <<>> /\ level < max_depth)
    /\ tot_pc' = "built"
    /\ UNCHANGED <<nodes, queue, next_queue, level, node_i, thoughts_left, tot_error>>
    /\ UNCHANGED <<tot_result, others_tot>>

\* find_best_solution after build_tree: terminal_nodes = self._find_terminal_nodes(root);
\* without terminal nodes the fixed result is returned, else best_node is chosen
FindBestNode ==
    /\ tot_pc = "built"
    /\ LET terminal_nodes == find_terminal_nodes(nodes, 1) IN
       IF terminal_nodes = <<>>
         THEN /\ tot_result' = NoSolutionResult
              /\ tot_pc' = "returned"
         ELSE /\ tot_result' = [NoResult EXCEPT
                                   !.best_path = get_path(nodes, max_by_score(nodes, terminal_nodes))]
              /\ tot_pc' = "final_solution"
    /\ UNCHANGED <<nodes, queue, next_queue, level, node_i, thoughts_left, tot_error>>
    /\ UNCHANGED others_tot

\* solution = self._generate_final_solution(problem, best_path); return {...}
GenerateFinalSolution ==
    /\ tot_pc = "final_solution"
    /\ \/ /\ tot_result' = SolutionResult(nodes, tot_result.best_path[Len(tot_result.best_path)])
          /\ tot_pc' = "returned"
          /\ UNCHANGED tot_error
       \/ \* llm.generate raises
          /\ tot_pc' = "raised"
          /\ tot_error' = "LLMError"
          /\ UNCHANGED tot_result
    /\ UNCHANGED <<nodes, queue, next_queue, level, node_i, thoughts_left>>
    /\ UNCHANGED others_tot

TOTNext ==
    \/ BuildStart
    \/ LevelStart
    \/ GenerateThoughts
    \/ AddChild
    \/ CheckTerminal
    \/ NextNode
    \/ LevelEnd
    \/ BuildDone
    \/ FindBestNode
    \/ GenerateFinalSolution

\* C10: a node has children only if it is the root or it is non-terminal with
\* evaluation_score >= 6.0; terminal nodes and nodes scoring below 6.0 never
\* get children.
C10_OnlyPromisingExpanded ==
    \A n \in 1..Len(nodes) :
        Children(nodes, n) # {} =>
            \/ n = 1
            \/ ~nodes[n].is_terminal /\ nodes[n].evaluation_score >= PromisingScore

\* In a finished tree a promising child of the root has been expanded while
\* its sibling with a good score that is terminal has not.
C10_Witness ==
    /\ tot_pc = "built"
    /\ \E a, b \in Children(nodes, 1) :
         /\ Children(nodes, a) # {}
         /\ Children(nodes, b) = {}
         /\ nodes[b].is_terminal
         /\ nodes[b].evaluation_score >= PromisingScore

\* build_tree is over: it returned self.root or an exception left it
BuildTreeTerminated == tot_pc \in {"built", "final_solution", "returned", "raised"}

\* every node has depth <= max_depth, each child's depth is its parent's depth + 1,
\* and every node has at most branching_factor children
TreeBounded ==
    \A n \in 1..Len(nodes) :
        /\ nodes[n].depth <= max_depth
        /\ nodes[n].parent # 0 => nodes[n].depth = nodes[nodes[n].parent].depth + 1
        /\ Cardinality(Children(nodes, n)) <= branching_factor

\* C11: build_tree always terminates, and the tree is bounded throughout: every
\* node has depth <= max_depth, each child's depth is its parent's depth + 1,
\* and every node has at most branching_factor children.
C11_TerminatesWithBoundedTree == []TreeBounded /\ <>BuildTreeTerminated

\* A returned tree with a node at depth max_depth whose parent has
\* branching_factor children.
C11_Witness ==
    /\ tot_pc = "built"
    /\ \E n \in 1..Len(nodes) :
         /\ nodes[n].depth = max_depth
         /\ Cardinality(Children(nodes, nodes[n].parent)) = branching_factor

Terminals == {n \in 1..Len(nodes) : nodes[n].is_terminal}

\* C12: find_best_solution returns the root-to-node path of a terminal node
\* whose evaluation_score is maximal among all terminal nodes of the tree, and
\* returns the fixed result with score 0.0 and empty path exactly when the
\* tree has no terminal node.
C12_BestTerminalReturned ==
    tot_pc = "returned" =>
        /\ (tot_result = NoSolutionResult) <=> (Terminals = {})
        /\ Terminals # {} =>
              \E t \in Terminals :
                  /\ \A u \in Terminals : nodes[u].evaluation_score <= nodes[t].evaluation_score
                  /\ tot_result.best_path = get_path(nodes, t)
                  /\ tot_result.best_path[1] = 1
                  /\ \A i \in 2..Len(tot_result.best_path) :
                        nodes[tot_result.best_path[i]].parent = tot_result.best_path[i - 1]
                  /\ tot_result.score = nodes[t].evaluation_score

\* A result whose terminal node is at depth 2 and is preceded, in the order of
\* the search, by a terminal node with a lower score.
C12_Witness ==
    /\ tot_pc = "returned"
    /\ Len(tot_result.best_path) = 3
    /\ \E u \in Terminals :
         /\ u < tot_result.best_path[3]
         /\ nodes[u].evaluation_score < tot_result.score

(***************************************************************************)
(* 43_dry_run.py                                                           *)
(***************************************************************************)

\* main: the test_actions and their risk_level
NumActions == 4
risk_level == <<"low", "medium", "low", "high">>

\* Reviewer.auto_approve_threshold, in hundredths
auto_approve_threshold == 80

\* Simulator._calculate_success_probability, in hundredths: the ends of
\* max(0.1, min(0.95, base_probability + random.uniform(-0.1, 0.1)))
SuccessProbabilities(risk) ==
    IF risk = "low" THEN {80, 95}
    ELSE IF risk = "medium" THEN {60, 80}
    ELSE {40, 60}

\* JSON values the LLM may answer check_safety with: an object with every key
\* process_action reads, an object with a key missing, valid JSON that is no object.
SafetyObj(safe) == [shape |-> "object", is_safe |-> safe]
SafetyIncomplete == [shape |-> "incomplete", is_safe |-> FALSE]
SafetyOther == [shape |-> "other", is_safe |-> FALSE]
SafetyValues == {SafetyObj(TRUE), SafetyObj(FALSE), SafetyIncomplete, SafetyOther}

\* JSON values the LLM may answer review_dry_run with
Decisions == {"APPROVED", "REJECTED", "NEEDS_REVISION", "approved"}
ReviewObj(decision) == [shape |-> "object", decision |-> decision]
ReviewIncomplete == [shape |-> "incomplete", decision |-> "none"]
ReviewOther == [shape |-> "other", decision |-> "none"]
ReviewValues == {ReviewObj(d) : d \in Decisions} \cup {ReviewIncomplete, ReviewOther}

SafetyParses == ParsedResponses(SafetyValues)
ReviewParses == ParsedResponses(ReviewValues)

\* check_safety as process_action reads it: safety_result['is_safe'],
\* safety_result['risk_score'], safety_result['violations']
check_safety(parsed, risk) ==
    IF ~parsed.ok THEN Return(risk \in {"low", "medium"})
    ELSE IF parsed.v.shape = "other" THEN Raise("TypeError")
    ELSE IF parsed.v.shape = "incomplete" THEN Raise("KeyError")
    ELSE Return(parsed.v.is_safe)

\* review_dry_run as process_action reads it: review_result['decision'], review_result['reason']
review_dry_run(parsed, success_probability) ==
    IF ~parsed.ok
      THEN Return(IF success_probability >= auto_approve_threshold
                    THEN "APPROVED" ELSE "NEEDS_REVISION")
    ELSE IF parsed.v.shape = "other" THEN Raise("TypeError")
    ELSE IF parsed.v.shape = "incomplete" THEN Raise("KeyError")
    ELSE Return(parsed.v.decision)

\* str.lower() of a decision
Lower(decision) ==
    IF decision = "APPROVED" THEN "approved"
    ELSE IF decision = "REJECTED" THEN "rejected"
    ELSE IF decision = "NEEDS_REVISION" THEN "needs_revision"
    ELSE decision

\* Execution of everything the reviewer did not reject.
ApprovedUnlessRejected(decision) == decision # "REJECTED"

\* if review_result['decision'] == "APPROVED"
Approved(decision) == decision = "APPROVED"

Call(name, outcome) == [call |-> name, outcome |-> outcome]

\* The dicts process_action returns and appends to execution_history
NoActionResult == [status |-> "none", executed |-> FALSE, execution_result |-> "none"]
ActionResult(status, executed, execution_result) ==
    [status |-> status, executed |-> executed, execution_result |-> execution_result]
HistoryRecord(status, execution_result) ==
    [status |-> status, execution_result |-> execution_result]

DRInit ==
    /\ dr_pc = "main"
    /\ dr_i = 0
    /\ dr_calls = <<>>
    /\ dry_run_result = 0
    /\ execution_history = <<>>
    /\ dr_result = NoActionResult
    /\ dr_error = "none"

DRIdle ==
    /\ dr_pc = "idle"
    /\ dr_i = 0
    /\ dr_calls = <<>>
    /\ dry_run_result = 0
    /\ execution_history = <<>>
    /\ dr_result = NoActionResult
    /\ dr_error = "none"

\* main: result = harness.process_action(action) for the next test action (no
\* result yet); Step 1: safety check
CheckSafety ==
    /\ dr_pc = "main"
    /\ dr_i < NumActions
    /\ \/ \E parsed \in SafetyParses :
            LET safety_result == check_safety(parsed, risk_level[dr_i + 1]) IN
            IF safety_result.raised
              THEN /\ dr_calls' = <<Call("check_safety", "raised")>>
                   /\ dr_pc' = "raised"
                   /\ dr_error' = safety_result.error
                   /\ dr_result' = NoActionResult
                   /\ UNCHANGED dr_i
              ELSE IF ~safety_result.value
                THEN /\ dr_calls' = <<Call("check_safety", "unsafe")>>
                     /\ dr_result' = ActionResult("rejected", FALSE, "none")
                     /\ dr_i' = dr_i + 1
                     /\ UNCHANGED <<dr_pc, dr_error>>
                ELSE /\ dr_calls' = <<Call("check_safety", "is_safe")>>
                     /\ dr_pc' = "simulate"
                     /\ dr_result' = NoActionResult
                     /\ UNCHANGED <<dr_i, dr_error>>
       \/ \* llm.generate raises
          /\ dr_calls' = <<Call("check_safety", "raised")>>
          /\ dr_pc' = "raised"
          /\ dr_error' = "LLMError"
          /\ dr_result' = NoActionResult
          /\ UNCHANGED dr_i
    /\ UNCHANGED <<dry_run_result, execution_history>>
    /\ UNCHANGED others_dr

\* Step 2: dry_run_result = self.simulator.simulate_action(action)
SimulateAction ==
    /\ dr_pc = "simulate"
    /\ \/ \E success_probability \in SuccessProbabilities(risk_level[dr_i + 1]) :
            /\ dry_run_result' = success_probability
            /\ dr_calls' = Append(dr_calls, Call("simulate_action", "completed"))
            /\ dr_pc' = "review"
            /\ UNCHANGED dr_error
       \/ \* llm.generate raises in _predict_consequences or _assess_risks
          /\ dr_calls' = Append(dr_calls, Call("simulate_action", "raised"))
          /\ dr_pc' = "raised"
          /\ dr_error' = "LLMError"
          /\ UNCHANGED dry_run_result
    /\ UNCHANGED <<dr_i, execution_history, dr_result>>
    /\ UNCHANGED others_dr

\* Step 3: review_result = self.reviewer.review_dry_run(dry_run_result); Step 4, else branch
ReviewDryRun ==
    /\ dr_pc = "review"
    /\ \/ \E parsed \in ReviewParses :
            LET review_result == review_dry_run(parsed, dry_run_result) IN
            IF review_result.raised
              THEN /\ dr_calls' = Append(dr_calls, Call("review_dry_run", "raised"))
                   /\ dr_pc' = "raised"
                   /\ dr_error' = review_result.error
                   /\ UNCHANGED <<dr_i, execution_history, dr_result>>
              ELSE /\ dr_calls' = Append(dr_calls, Call("review_dry_run", review_result.value))
                   /\ UNCHANGED dr_error
                   /\ IF Approved(review_result.value)
                        THEN /\ dr_pc' = "execute"
                             /\ UNCHANGED <<dr_i, execution_history, dr_result>>
                        ELSE /\ execution_history' =
                                   Append(execution_history,
                                          HistoryRecord(Lower(review_result.value), "none"))
                             /\ dr_result' = ActionResult(Lower(review_result.value), FALSE, "none")
                             /\ dr_i' = dr_i + 1
                             /\ dr_pc' = "main"
       \/ \* llm.generate raises
          /\ dr_calls' = Append(dr_calls, Call("review_dry_run", "raised"))
          /\ dr_pc' = "raised"
          /\ dr_error' = "LLMError"
          /\ UNCHANGED <<dr_i, execution_history, dr_result>>
    /\ UNCHANGED dry_run_result
    /\ UNCHANGED others_dr

\* Step 4, approved: execution_result = self._execute_action(action), recorded and returned
ExecuteAction ==
    /\ dr_pc = "execute"
    /\ \E execution_result \in {"success", "failed"} :
         /\ dr_calls' = Append(dr_calls, Call("_execute_action", execution_result))
         /\ execution_history' = Append(execution_history, HistoryRecord("executed", execution_result))
         /\ dr_result' = ActionResult("executed", TRUE, execution_result)
    /\ dr_i' = dr_i + 1
    /\ dr_pc' = "main"
    /\ UNCHANGED <<dry_run_result, dr_error>>
    /\ UNCHANGED others_dr

\* main: the test actions are used up; harness.get_system_status()
SystemStatus ==
    /\ dr_pc = "main"
    /\ dr_i = NumActions
    /\ dr_pc' = "done"
    /\ UNCHANGED <<dr_i, dr_calls, dry_run_result, execution_history, dr_result, dr_error>>
    /\ UNCHANGED others_dr

DRNext ==
    \/ CheckSafety
    \/ SimulateAction
    \/ ReviewDryRun
    \/ ExecuteAction
    \/ SystemStatus

\* C13: process_action calls _execute_action only after, in this order, the
\* safety check returned is_safe, the dry-run simulation completed and the
\* reviewer's decision was exactly "APPROVED"; an action that fails the safety
\* check is never simulated, reviewed or executed.
C13_ExecutedOnlyAfterApproval ==
    /\ \A k \in 1..Len(dr_calls) :
         dr_calls[k].call = "_execute_action" =>
            /\ k = 4
            /\ dr_calls[1] = Call("check_safety", "is_safe")
            /\ dr_calls[2] = Call("simulate_action", "completed")
            /\ dr_calls[3] = Call("review_dry_run", "APPROVED")
    /\ (dr_calls # <<>> /\ dr_calls[1] = Call("check_safety", "unsafe")) =>
            /\ Len(dr_calls) = 1
            /\ ~dr_result.executed
    /\ dr_result.executed =>
            \E k \in 1..Len(dr_calls) : dr_calls[k].call = "_execute_action"

\* An action has been executed after an earlier one was turned down by the
\* reviewer with a decision other than the three documented ones.
C13_Witness ==
    /\ dr_pc = "main"
    /\ dr_result.executed
    /\ Len(dr_calls) = 4
    /\ \E h \in 1..Len(execution_history) : execution_history[h].status = "approved"

\* C14: when live execution of an approved action fails, the harness rolls
\* the action back or recovers, and the action is not reported as executed.
C14_FailedExecutionNotReportedExecuted ==
    /\ dr_result.execution_result = "failed" =>
          ~dr_result.executed /\ dr_result.status # "executed"
    /\ \A h \in 1..Len(execution_history) :
          execution_history[h].execution_result = "failed" =>
              execution_history[h].status # "executed"

\* A failed execution is recorded and returned as executed, and nothing follows
\* the call of _execute_action.
FailedExecutionReportedExecuted ==
    dr_result.execution_result = "failed" =>
        /\ dr_result.executed
        /\ dr_result.status = "executed"
        /\ dr_calls[Len(dr_calls)] = Call("_execute_action", "failed")
        /\ execution_history[Len(execution_history)] = HistoryRecord("executed", "failed")

(***************************************************************************)
(* 24_workflow_orchestration.py                                            *)
(***************************************************************************)

\* Most tasks registered with add_task. Task ids are 1..Len(tasks), in the
\* order of registration (the order of the dict self.tasks).
MaxTasks == 3

\* The lists in increasing order of the members of a set
RECURSIVE SortedSeq(_)
SortedSeq(set) ==
    IF set = {} THEN <<>>
    ELSE LET first == CHOOSE i \in set : \A j \in set : i <= j
         IN <<first>> \o SortedSeq(set \ {first})

\* Dependency lists a task of a workflow of n tasks may be given: up to two
\* ids, of registered tasks or of the unregistered task n + 1
DependencyLists(n) ==
    {SortedSeq(deps) : deps \in {d \in SUBSET (1..(n + 1)) : Cardinality(d) <= 2}}

\* WorkflowTask(id, name, function, dependencies): status "pending"
WorkflowTask(dependencies) == [dependencies |-> dependencies, status |-> "pending"]

\* The workflows add_task can build
Workflows ==
    UNION {[1..n -> {WorkflowTask(deps) : deps \in DependencyLists(n)}] : n \in 1..MaxTasks}

SeqMembers(seq) == {seq[i] : i \in 1..Len(seq)}

\* validate_dependencies: ValueError if a dependency is no registered task
validate_dependencies(ts) ==
    IF \E t \in 1..Len(ts) : \E dep_id \in SeqMembers(ts[t].dependencies) : dep_id \notin 1..Len(ts)
      THEN Raise("ValueError")
      ELSE Return(0)

\* The locals of calculate_execution_order
NewSort == [visited |-> {}, temp_visited |-> {}, order |-> <<>>, error |-> "none"]

\* The dependencies of a task are not visited.
visit_dependencies_skipped(ts, st, deps, k) == st

RECURSIVE visit(_, _, _)
\* for dep_id in self.tasks[task_id].dependencies: visit(dep_id)
RECURSIVE visit_dependencies(_, _, _, _)
visit_dependencies(ts, st, deps, k) ==
    IF k > Len(deps) \/ st.error # "none" THEN st
    ELSE visit_dependencies(ts, visit(ts, st, deps[k]), deps, k + 1)

\* visit(task_id) of calculate_execution_order
visit(ts, st, task_id) ==
    IF task_id \in st.temp_visited THEN [st EXCEPT !.error = "ValueError"]
    ELSE IF task_id \in st.visited THEN st
    ELSE IF task_id \notin 1..Len(ts) THEN [st EXCEPT !.error = "KeyError"]
    ELSE LET entered == [st EXCEPT !.temp_visited = @ \cup {task_id}]
             after == visit_dependencies(ts, entered, ts[task_id].dependencies, 1)
         IN IF after.error # "none" THEN after
            ELSE [after EXCEPT !.temp_visited = @ \ {task_id},
                               !.visited = @ \cup {task_id},
                               !.order = Append(@, task_id)]

\* for task_id in self.tasks: if task_id not in visited: visit(task_id)
RECURSIVE visit_all(_, _, _)
visit_all(ts, st, task_id) ==
    IF task_id > Len(ts) \/ st.error # "none" THEN st
    ELSE visit_all(ts, IF task_id \in st.visited THEN st ELSE visit(ts, st, task_id), task_id + 1)

\* calculate_execution_order: the order, or the exception
calculate_execution_order(ts) ==
    LET st == visit_all(ts, NewSort, 1)
    IN IF st.error # "none" THEN Raise(st.error) ELSE [Return(0) EXCEPT !.value = st.order]

WFInit ==
    /\ wf_pc = "start"
    /\ tasks \in Workflows
    /\ execution_order = <<>>
    /\ wf_pos = 0
    /\ wf_started = <<>>
    /\ wf_error = "none"

WFIdle ==
    /\ wf_pc = "idle"
    /\ tasks = <<>>
    /\ execution_order = <<>>
    /\ wf_pos = 0
    /\ wf_started = <<>>
    /\ wf_error = "none"

\* execute_workflow: self.validate_dependencies(); execution_order = self.calculate_execution_order()
ExecuteWorkflow ==
    /\ wf_pc = "start"
    /\ LET valid == validate_dependencies(tasks)
           order == calculate_execution_order(tasks)
       IN IF valid.raised
            THEN /\ wf_pc' = "raised"
                 /\ wf_error' = valid.error
                 /\ UNCHANGED <<execution_order, wf_pos>>
          ELSE IF order.raised
            THEN /\ wf_pc' = "raised"
                 /\ wf_error' = order.error
                 /\ UNCHANGED <<execution_order, wf_pos>>
          ELSE /\ execution_order' = order.value
               /\ wf_pos' = 1
               /\ wf_pc' = "for_task"
               /\ UNCHANGED wf_error
    /\ UNCHANGED <<tasks, wf_started>>
    /\ UNCHANGED others_wf

\* for task_id in execution_order: the dependencies are checked, then
\* task.execute sets self.status = "running"
StartTask ==
    /\ wf_pc = "for_task"
    /\ wf_pos <= Len(execution_order)
    /\ LET task_id == execution_order[wf_pos] IN
       IF \E dep_id \in SeqMembers(tasks[task_id].dependencies) : tasks[dep_id].status # "completed"
         THEN /\ wf_pc' = "raised"
              /\ wf_error' = "ValueError"
              /\ UNCHANGED <<tasks, wf_started>>
         ELSE /\ tasks' = [tasks EXCEPT ![task_id].status = "running"]
              /\ wf_started' = Append(wf_started, task_id)
              /\ wf_pc' = "executing"
              /\ UNCHANGED wf_error
    /\ UNCHANGED <<execution_order, wf_pos>>
    /\ UNCHANGED others_wf

\* task.execute: self.function(context) returns (status "completed") or raises
\* (status "failed", and execute_workflow returns False)
FinishTask ==
    /\ wf_pc = "executing"
    /\ LET task_id == execution_order[wf_pos] IN
       \/ /\ tasks' = [tasks EXCEPT ![task_id].status = "completed"]
          /\ wf_pos' = wf_pos + 1
          /\ wf_pc' = "for_task"
       \/ /\ tasks' = [tasks EXCEPT ![task_id].status = "failed"]
          /\ wf_pc' = "returned False"
          /\ UNCHANGED wf_pos
    /\ UNCHANGED <<execution_order, wf_started, wf_error>>
    /\ UNCHANGED others_wf

\* The tasks are used up: return True
WorkflowCompleted ==
    /\ wf_pc = "for_task"
    /\ wf_pos > Len(execution_order)
    /\ wf_pc' = "returned True"
    /\ UNCHANGED <<tasks, execution_order, wf_pos, wf_started, wf_error>>
    /\ UNCHANGED others_wf

WFNext ==
    \/ ExecuteWorkflow
    \/ StartTask
    \/ FinishTask
    \/ WorkflowCompleted

\* The position of a task in a list, 0 if it is not in it
IndexIn(seq, x) == IF \E i \in 1..Len(seq) : seq[i] = x
                     THEN CHOOSE i \in 1..Len(seq) : seq[i] = x ELSE 0

OrderCalculated == wf_pc \in {"for_task", "executing", "returned False", "returned True"}

\* C15: calculate_execution_order returns every registered task exactly once,
\* each task after all tasks it depends on; execute_workflow runs the tasks in
\* that order, and a task is started only when all of its dependencies have
\* status completed.
C15_DependencyOrderRespected ==
    OrderCalculated =>
        /\ Len(execution_order) = Len(tasks)
        /\ SeqMembers(execution_order) = 1..Len(tasks)
        /\ \A t \in 1..Len(tasks) : \A dep_id \in SeqMembers(tasks[t].dependencies) :
              /\ IndexIn(execution_order, dep_id) > 0
              /\ IndexIn(execution_order, dep_id) < IndexIn(execution_order, t)
        /\ wf_started = SubSeq(execution_order, 1, Len(wf_started))
        /\ \A k \in 1..Len(wf_started) :
              \A dep_id \in SeqMembers(tasks[wf_started[k]].dependencies) :
                  tasks[dep_id].status = "completed"

\* A workflow of three tasks has completed in which the first registered task
\* ran last, after its two dependencies.
C15_Witness ==
    /\ wf_pc = "returned True"
    /\ Len(tasks) = 3
    /\ Len(tasks[1].dependencies) = 2
    /\ wf_started[3] = 1
    /\ \A t \in 1..3 : tasks[t].status = "completed"

(***************************************************************************)
(* Specifications: one per script                                          *)
(***************************************************************************)

InitRetry == EHInit /\ TPIdle /\ PEVIdle /\ SMIdle /\ BBIdle /\ TOTIdle /\ DRIdle /\ WFIdle
SpecRetry == InitRetry /\ [][EHNext]_vars

InitPool == TPInit /\ EHIdle /\ PEVIdle /\ SMIdle /\ BBIdle /\ TOTIdle /\ DRIdle /\ WFIdle
SpecPool == InitPool /\ [][TPNext]_vars

InitPEV == PEVInit /\ EHIdle /\ TPIdle /\ SMIdle /\ BBIdle /\ TOTIdle /\ DRIdle /\ WFIdle
SpecPEV == InitPEV /\ [][PEVNext]_vars

InitSM == SMInit /\ EHIdle /\ TPIdle /\ PEVIdle /\ BBIdle /\ TOTIdle /\ DRIdle /\ WFIdle
SpecSM == InitSM /\ [][SMNext]_vars

InitBB == BBInit /\ EHIdle /\ TPIdle /\ PEVIdle /\ SMIdle /\ TOTIdle /\ DRIdle /\ WFIdle
SpecBB == InitBB /\ [][BBNext]_vars

InitTOT == TOTInit /\ EHIdle /\ TPIdle /\ PEVIdle /\ SMIdle /\ BBIdle /\ DRIdle /\ WFIdle
SpecTOT == InitTOT /\ [][TOTNext]_vars

InitDR == DRInit /\ EHIdle /\ TPIdle /\ PEVIdle /\ SMIdle /\ BBIdle /\ TOTIdle /\ WFIdle
SpecDR == InitDR /\ [][DRNext]_vars

InitWF == WFInit /\ EHIdle /\ TPIdle /\ PEVIdle /\ SMIdle /\ BBIdle /\ TOTIdle /\ DRIdle
SpecWF == InitWF /\ [][WFNext]_vars

\* The script is one thread that runs on: build_tree and find_best_solution take their steps
SpecTOTFair == SpecTOT /\ WF_vars(TOTNext)

=============================================================================
